---- MODULE Spec2Model ----
(***************************************************************************)
(* A model of grockMusic (src/main.go): the note table built by            *)
(* generatePianoNotes, the per-block callback processAudio with its peak   *)
(* search, harmonic correction and report, the nearest-note lookup         *)
(* findClosestNote, and the device lifecycle of main.                      *)
(*                                                                         *)
(* float64 values are modelled in binary fixed point.  Frequencies are     *)
(* integers in units of 1/FreqScale Hz (2^-19 Hz): every bin frequency     *)
(* i * 44100/2048 and every half of one is an exact integer of that unit,  *)
(* and the largest value that occurs stays below 2^31.  Magnitudes are     *)
(* integers in units of 1/MagScale, so that the literal 0.05 is exact.     *)
(***************************************************************************)
EXTENDS Integers, Sequences, FiniteSets, TLC

VARIABLES
    pianoNotes,    \* the package-level note table (main.go:23)
    pc,            \* main's position (main.go:41-78)
    calls,         \* main's device calls and channel receive, in order, with outcomes
    sigChan,       \* number of signals buffered in sigChan (capacity 1)
    magnitudes,    \* processAudio's magnitude spectrum of the last block
    maxMag,        \* processAudio's local maxMag at its return
    maxIdx,        \* processAudio's local maxIdx at its return
    freq,          \* processAudio's local freq at its return
    stdout,        \* what the last processAudio call printed: <<>> or one line
    cbOps,         \* allocations and I/O the last processAudio call performed
    defers,        \* main's stack of deferred calls, last pushed first
    streamActive,  \* whether the audio source is delivering blocks
    blocks,        \* number of processAudio calls made so far
    pending,       \* a block delivered to a single processAudio call, or NoBlock
    qfreq,         \* argument of a findClosestNote call
    qnote          \* its result, NoNote before the call

vars == <<pianoNotes, pc, calls, sigChan, magnitudes, maxMag, maxIdx, freq, stdout, cbOps,
          defers, streamActive, blocks, pending, qfreq, qnote>>

-----------------------------------------------------------------------------
(* Program constants *)

sampleRate == 44100

framesPerBuffer == 2048

NumNotes == 61

noteNames == <<"C", "C#", "D", "D#", "E", "F", "F#", "G", "G#", "A", "A#", "B">>

-----------------------------------------------------------------------------
(* Fixed-point arithmetic standing for float64 *)

FreqScale == 2^19

MagScale == 10 * 10

Abs(x) == IF x < 0 THEN -x ELSE x

LimbBase == 2^11

Limb(x, j) == (x \div LimbBase^j) % LimbBase

\* The digits (base 2^11, least significant first, each below 2^11) of a * b,
\* for 0 <= a, b < 2^31, by schoolbook multiplication with carries.
ProductLimbs(a, b) ==
    LET c0 == Limb(a, 0) * Limb(b, 0)
        c1 == Limb(a, 0) * Limb(b, 1) + Limb(a, 1) * Limb(b, 0)
        c2 == Limb(a, 0) * Limb(b, 2) + Limb(a, 1) * Limb(b, 1) + Limb(a, 2) * Limb(b, 0)
        c3 == Limb(a, 1) * Limb(b, 2) + Limb(a, 2) * Limb(b, 1)
        c4 == Limb(a, 2) * Limb(b, 2)
        t1 == c1 + c0 \div LimbBase
        t2 == c2 + t1 \div LimbBase
        t3 == c3 + t2 \div LimbBase
        t4 == c4 + t3 \div LimbBase
    IN  <<c0 % LimbBase, t1 % LimbBase, t2 % LimbBase, t3 % LimbBase,
          t4 % LimbBase, t4 \div LimbBase>>

\* d * 2^e for a digit d, rounded down when e < 0.
ShiftLimb(d, e) ==
    IF d = 0 \/ e <= -11 THEN 0
    ELSE IF e >= 0 THEN d * 2^e ELSE d \div 2^(-e)

\* a * b / 2^k rounded to the nearest integer (k >= 1): a float64 product
\* rounded to the fixed-point grid of its result.
MulShift(a, b, k) ==
    LET d == ProductLimbs(a, b)
        floor == ShiftLimb(d[1], 0 - k) + ShiftLimb(d[2], 11 - k) + ShiftLimb(d[3], 22 - k)
                 + ShiftLimb(d[4], 33 - k) + ShiftLimb(d[5], 44 - k) + ShiftLimb(d[6], 55 - k)
        half == (d[((k - 1) \div 11) + 1] \div 2^((k - 1) % 11)) % 2
    IN  floor + half

\* 2^(r/12) for r in -6..6, in units of 2^-30: math.Pow's exp(yf * log 2)
\* for the fractional part yf = r/12 of the exponent.
Exp2Twelfths(r) ==
    CASE r = -6 -> 759250125
      [] r = -5 -> 804397487
      [] r = -4 -> 852229450
      [] r = -3 -> 902905651
      [] r = -2 -> 956595215
      [] r = -1 -> 1013477326
      [] r = 0  -> 1073741824
      [] r = 1  -> 1137589835
      [] r = 2  -> 1205234447
      [] r = 3  -> 1276901417
      [] r = 4  -> 1352829926
      [] r = 5  -> 1433273380
      [] r = 6  -> 1518500250

\* Integer quotient and remainder truncated toward zero (math.Modf).
TruncDiv(n, d) == IF n >= 0 THEN n \div d ELSE -((-n) \div d)

TruncRem(n, d) == n - d * TruncDiv(n, d)

\* math.Pow(2, n/12.0): the exponent is split by Modf into an integer part yi
\* and a fraction yf, yf is brought into (-1/2, 1/2], and the result is
\* exp(yf * log 2) scaled by 2^yi.  The value is mant * 2^-30 * 2^exp.
Pow2(n) ==
    LET yi == TruncDiv(n, 12)
        yf == TruncRem(n, 12)
    IN  IF yf > 6 THEN [mant |-> Exp2Twelfths(yf - 12), exp |-> yi + 1]
        ELSE IF yf < -6 THEN [mant |-> Exp2Twelfths(yf + 12), exp |-> yi - 1]
        ELSE [mant |-> Exp2Twelfths(yf), exp |-> yi]

-----------------------------------------------------------------------------
(* generatePianoNotes, main.go:25-39 *)

A4 == 440

\* startFreq := A4 * math.Pow(2, -33.0/12.0), in units of 2^-24 Hz (the
\* mantissa is in units of 2^-30: the product is divided by 2^(6 - exp))
startFreq ==
    LET p == Pow2(-33)
    IN  MulShift(A4, p.mant, 6 - p.exp)

\* Mutant: the exponent taken from the pitch class instead of the index.
NoteFreq_PitchClassOnly(i) ==
    LET p == Pow2(i % 12)
    IN  MulShift(startFreq, p.mant, 35 - p.exp)

\* freq := startFreq * math.Pow(2, float64(i)/12.0), in units of 1/FreqScale Hz
\* (2^-24 Hz times 2^-30, divided by 2^(35 - exp), gives 2^-19 Hz)
NoteFreq(i) ==
    LET p == Pow2(i)
    IN  MulShift(startFreq, p.mant, 35 - p.exp)

\* fmt.Sprintf("%d", n) for n >= 0
RECURSIVE Itoa(_)
Itoa(n) ==
    LET digit == SubSeq("0123456789", (n % 10) + 1, (n % 10) + 1)
    IN  IF n < 10 THEN digit ELSE Itoa(n \div 10) \o digit

\* Mutant: the octave counted from 1.
NoteName_OctaveFromOne(i) ==
    LET octave == 1 + (i \div 12)
        noteIdx == i % 12
    IN  noteNames[noteIdx + 1] \o Itoa(octave)

\* name := fmt.Sprintf("%s%d", noteNames[noteIdx], octave)
NoteName(i) ==
    LET octave == 2 + (i \div 12)
        noteIdx == i % 12
    IN  noteNames[noteIdx + 1] \o Itoa(octave)

\* The table as a sequence: Go's notes[i] is generatePianoNotes[i + 1].
generatePianoNotes ==
    [k \in 1..NumNotes |-> [Name |-> NoteName(k - 1), Frequency |-> NoteFreq(k - 1)]]

-----------------------------------------------------------------------------
(* findClosestNote, main.go:121-132 *)

\* for _, note := range pianoNotes[1:] { if diff < minDiff { ... } }
\* k is the 1-based position in pianoNotes of the next note of the range.
RECURSIVE ClosestLoop(_, _, _, _)
ClosestLoop(f, k, closest, minDiff) ==
    IF k > Len(pianoNotes) THEN closest
    ELSE LET note == pianoNotes[k]
             diff == Abs(f - note.Frequency)
         IN  IF diff < minDiff
             THEN ClosestLoop(f, k + 1, note, diff)
             ELSE ClosestLoop(f, k + 1, closest, minDiff)

\* Mutant: "diff <= minDiff", so that the last of several equally near notes wins.
RECURSIVE ClosestLoop_LastWins(_, _, _, _)
ClosestLoop_LastWins(f, k, closest, minDiff) ==
    IF k > Len(pianoNotes) THEN closest
    ELSE LET note == pianoNotes[k]
             diff == Abs(f - note.Frequency)
         IN  IF diff <= minDiff
             THEN ClosestLoop_LastWins(f, k + 1, note, diff)
             ELSE ClosestLoop_LastWins(f, k + 1, closest, minDiff)

findClosestNote_LastWins(f) ==
    ClosestLoop_LastWins(f, 2, pianoNotes[1], Abs(f - pianoNotes[1].Frequency))

findClosestNote(f) ==
    ClosestLoop(f, 2, pianoNotes[1], Abs(f - pianoNotes[1].Frequency))

-----------------------------------------------------------------------------
(* processAudio, main.go:80-119 *)

\* magnitudes := make([]float64, framesPerBuffer/2)
NumBins == framesPerBuffer \div 2

\* freqResolution := float64(sampleRate) / float64(framesPerBuffer)
\* (FreqScale is a multiple of framesPerBuffer, so the quotient is exact)
freqResolution == sampleRate * (FreqScale \div framesPerBuffer)

\* Mutant: the scan runs one bin further.
highFreqLimit_OneMore == ((2200 * FreqScale) \div freqResolution) + 1

\* highFreqLimit := int(2200.0 / freqResolution)
highFreqLimit == (2200 * FreqScale) \div freqResolution

\* Mutant: maxMag kept from the previous call.
InitialMaxMag_Stale == maxMag

\* maxMag := 0.0
InitialMaxMag == 0

\* maxIdx := 0
InitialMaxIdx == 0

\* the literal 0.05 of "if maxMag > 0.05"
MagThreshold == (5 * MagScale) \div 100

\* Mutant: the floor set at A4 instead of C4.
HarmonicFloor_A4 == 440 * FreqScale

\* the literal 261.0 of "if freq > 261.0"
HarmonicFloor == 261 * FreqScale

\* for i := 0; i < highFreqLimit && i < len(magnitudes); i++ { ... }
\* mags is 1-based: Go's magnitudes[i] is mags[i + 1].
RECURSIVE PeakLoop(_, _, _, _)
PeakLoop(mags, i, mm, mi) ==
    IF ~(i < highFreqLimit /\ i < Len(mags)) THEN [maxMag |-> mm, maxIdx |-> mi]
    ELSE IF mags[i + 1] > mm
         THEN PeakLoop(mags, i + 1, mags[i + 1], i)
         ELSE PeakLoop(mags, i + 1, mm, mi)

\* Mutant: ">=" for ">".
Detected_AtLeast(mm) == mm >= MagThreshold

\* if maxMag > 0.05 { ... fmt.Printf(...) }
Detected(mm) == mm > MagThreshold

\* Mutant: the correction left out.
ReportedNote_Uncorrected(f) == findClosestNote(f)

\* closestNote at the Printf of line 116: findClosestNote(freq) of line 104,
\* replaced at line 113 when freq > 261.0 and the halved frequency lies
\* within freqResolution of its closest note (lines 109-115).
ReportedNote(f) ==
    LET closestNote == findClosestNote(f)
    IN  IF f > HarmonicFloor
        THEN LET fundamental == f \div 2
             IN  IF Abs(fundamental - findClosestNote(fundamental).Frequency) < freqResolution
                 THEN LET adjustedFreq == fundamental
                      IN  findClosestNote(adjustedFreq)
                 ELSE closestNote
        ELSE closestNote

\* The arguments of the Printf of main.go:116-117.
ReportLine(f, mm) ==
    LET closestNote == ReportedNote(f)
    IN  [Name |-> closestNote.Name, Frequency |-> closestNote.Frequency,
         RawFreq |-> f, Magnitude |-> mm]

\* The two make calls of lines 81 and 87, and the Printf of line 116.
CallbackOps(mm) ==
    <<"make", "make">> \o (IF Detected(mm) THEN <<"Printf">> ELSE <<>>)

-----------------------------------------------------------------------------
(* Inputs.  fft.FFT is an external library: the magnitude spectrum that     *)
(* lines 81-90 compute from a block is the callback's input here.  A        *)
(* spectrum is zero except in at most two bins; a silent block gives the    *)
(* all-zero spectrum.  A block is <<b1, m1, b2, m2>>: magnitude m1 in bin   *)
(* b1 and m2 in bin b2.                                                     *)

MaxLevel == 7

MaxBin == 103

Levels == 0..MaxLevel

\* A single bin above the threshold, anywhere up to MaxBin (past highFreqLimit).
SingleSpikes == {<<b, MaxLevel, 0, 0>> : b \in 0..MaxBin}

\* Two bins at every pair of levels: one low bin, and one bin in the scanned
\* range, at its end, just past it, or at the end of the spectrum.
DoubleSpikes ==
    {<<b1, m1, b2, m2>> : b1 \in {0, 13, 41, 75, highFreqLimit - 1}, m1 \in Levels,
                          b2 \in {20, highFreqLimit - 1, highFreqLimit, NumBins - 1},
                          m2 \in Levels}

\* The blocks a single processAudio call is checked on.
AllBlocks == SingleSpikes \cup DoubleSpikes

\* The blocks the audio source delivers while main runs: silence, and tones
\* at, below and above the threshold, some with a second stronger bin.
StreamBlocks ==
    {<<0, 0, 0, 0>>, <<20, MagThreshold, 0, 0>>, <<20, MaxLevel, 0, 0>>,
     <<41, MaxLevel, 0, 0>>, <<75, MaxLevel, 0, 0>>, <<12, MaxLevel, 0, 0>>,
     <<41, MagThreshold - 1, 20, MaxLevel>>, <<41, MaxLevel, 20, MaxLevel>>,
     <<41, MagThreshold + 1, highFreqLimit, MaxLevel>>,
     <<0, MagThreshold + 1, highFreqLimit - 1, MaxLevel>>}

NoBlock == <<>>

\* Cap on the number of blocks delivered in one run.
MaxBlocks == 3

\* Offsets, in frequency units, explored around each note and each midpoint.
MaxDelta == 1

\* The frequencies findClosestNote is checked on: every note of the table and
\* every midpoint of two neighbours (rounded down) with the values next to
\* them, every bin frequency and its half, zero, and a value past the table.
QueryFreqs ==
    LET t == generatePianoNotes
    IN  {t[k].Frequency + d : k \in 1..NumNotes, d \in (-MaxDelta)..MaxDelta}
        \cup {((t[k].Frequency + t[k + 1].Frequency) \div 2) + d :
                  k \in 1..(NumNotes - 1), d \in (-MaxDelta)..MaxDelta}
        \cup {b * freqResolution : b \in 0..MaxBin}
        \cup {(b * freqResolution) \div 2 : b \in 0..MaxBin}
        \cup {0, 2200 * FreqScale}

SpectrumOf(b1, m1, b2, m2) ==
    [k \in 1..NumBins |-> IF k - 1 = b1 THEN m1 ELSE IF k - 1 = b2 THEN m2 ELSE 0]

NoNote == [Name |-> "", Frequency |-> -1]

-----------------------------------------------------------------------------
(* State machine *)

Init ==
    /\ pianoNotes = generatePianoNotes
    /\ pc = "Initialize"
    /\ calls = <<>>
    /\ defers = <<>>
    /\ sigChan = 0
    /\ streamActive = FALSE
    /\ blocks = 0
    /\ magnitudes = <<>>
    /\ maxMag = 0
    /\ maxIdx = 0
    /\ freq = 0
    /\ stdout = <<>>
    /\ cbOps = <<>>
    /\ pending = NoBlock
    /\ qfreq = 0
    /\ qnote = NoNote

Call(op, result) == [op |-> op, result |-> result]

callbackVars == <<magnitudes, maxMag, maxIdx, freq, stdout, cbOps, blocks>>

queryVars == <<pending, qfreq, qnote>>

\* if err != nil { return }; defer portaudio.Terminate()   (lines 43-47)
DefersAfterInitialize(result) ==
    IF result = "ok" THEN <<"Terminate">> \o defers ELSE defers

\* Mutant: the Close deferred before the error check.
DefersAfterOpen_Unchecked(result) == <<"Close">> \o defers

\* if err != nil { return }; defer stream.Close()   (lines 56-60)
DefersAfterOpen(result) ==
    IF result = "ok" THEN <<"Close">> \o defers ELSE defers

\* err := portaudio.Initialize(); if err != nil { return }; defer portaudio.Terminate()
Initialize ==
    /\ pc = "Initialize"
    /\ \E result \in {"ok", "error"} :
         /\ calls' = Append(calls, Call("Initialize", result))
         /\ pc' = IF result = "ok" THEN "OpenDefaultStream" ELSE "return"
         /\ defers' = DefersAfterInitialize(result)
    /\ UNCHANGED <<pianoNotes, sigChan, streamActive, callbackVars, queryVars>>

\* stream, err := portaudio.OpenDefaultStream(...); if err != nil { return }; defer stream.Close()
OpenDefaultStream ==
    /\ pc = "OpenDefaultStream"
    /\ \E result \in {"ok", "error"} :
         /\ calls' = Append(calls, Call("OpenDefaultStream", result))
         /\ pc' = IF result = "ok" THEN "Start" ELSE "return"
         /\ defers' = DefersAfterOpen(result)
    /\ UNCHANGED <<pianoNotes, sigChan, streamActive, callbackVars, queryVars>>

\* err = stream.Start(); if err != nil { return }; ... signal.Notify(sigChan, os.Interrupt)
Start ==
    /\ pc = "Start"
    /\ \E result \in {"ok", "error"} :
         /\ calls' = Append(calls, Call("Start", result))
         /\ IF result = "ok"
            THEN pc' = "Receive" /\ streamActive' = TRUE
            ELSE pc' = "return" /\ streamActive' = FALSE
    /\ UNCHANGED <<pianoNotes, sigChan, defers, callbackVars, queryVars>>

\* The interrupt signal, delivered to sigChan once signal.Notify has run; a
\* signal that finds the channel full is dropped.  (An interrupt before
\* signal.Notify ends the process without main returning; it is not modelled.)
Interrupt ==
    /\ pc \in {"Receive", "Stop", "return"}
    /\ sigChan = 0
    /\ sigChan' = 1
    /\ UNCHANGED <<pianoNotes, pc, calls, defers, streamActive, callbackVars, queryVars>>

\* <-sigChan
Receive ==
    /\ pc = "Receive"
    /\ sigChan > 0
    /\ sigChan' = sigChan - 1
    /\ pc' = "Stop"
    /\ calls' = Append(calls, Call("Receive", "ok"))
    /\ UNCHANGED <<pianoNotes, defers, streamActive, callbackVars, queryVars>>

\* err = stream.Stop(); if err != nil { fmt.Printf(...) }; fmt.Println(...)
\* A Stop that fails leaves the stream as it was.
Stop ==
    /\ pc = "Stop"
    /\ \E result \in {"ok", "error"} :
         /\ calls' = Append(calls, Call("Stop", result))
         /\ streamActive' = IF result = "ok" THEN FALSE ELSE streamActive
    /\ pc' = "return"
    /\ UNCHANGED <<pianoNotes, sigChan, defers, callbackVars, queryVars>>

\* main returns: the deferred calls run last pushed first, their results dropped.
RunDeferred ==
    /\ pc = "return"
    /\ defers # <<>>
    /\ calls' = Append(calls, Call(Head(defers), "ignored"))
    /\ defers' = Tail(defers)
    /\ streamActive' = IF Head(defers) = "Close" THEN FALSE ELSE streamActive
    /\ UNCHANGED <<pianoNotes, pc, sigChan, callbackVars, queryVars>>

Exit ==
    /\ pc = "return"
    /\ defers = <<>>
    /\ pc' = "exited"
    /\ UNCHANGED <<pianoNotes, calls, defers, sigChan, streamActive, callbackVars, queryVars>>

\* One call processAudio(in), lines 80-119, on the block blk.
processAudio(blk) ==
    /\ magnitudes' = SpectrumOf(blk[1], blk[2], blk[3], blk[4])
    /\ LET peak == PeakLoop(magnitudes', 0, InitialMaxMag, InitialMaxIdx)
       IN  maxMag' = peak.maxMag /\ maxIdx' = peak.maxIdx
    /\ freq' = maxIdx' * freqResolution
    /\ stdout' = IF Detected(maxMag') THEN <<ReportLine(freq', maxMag')>> ELSE <<>>
    /\ cbOps' = CallbackOps(maxMag')
    /\ blocks' = blocks + 1
    /\ pianoNotes' = pianoNotes

\* The audio source calls processAudio for each block while the stream is
\* active.
ProcessAudio ==
    /\ streamActive
    /\ blocks < MaxBlocks
    /\ \E blk \in StreamBlocks : processAudio(blk)
    /\ UNCHANGED <<pc, calls, defers, sigChan, streamActive, queryVars>>

Next ==
    \/ Initialize
    \/ OpenDefaultStream
    \/ Start
    \/ Interrupt
    \/ Receive
    \/ Stop
    \/ RunDeferred
    \/ Exit
    \/ ProcessAudio

Spec == Init /\ [][Next]_vars

-----------------------------------------------------------------------------
(* One processAudio call on each block of AllBlocks, the stream running. *)

InitBlock ==
    /\ pianoNotes = generatePianoNotes
    /\ pc = "Receive"
    /\ calls = <<Call("Initialize", "ok"), Call("OpenDefaultStream", "ok"), Call("Start", "ok")>>
    /\ defers = <<"Close", "Terminate">>
    /\ sigChan = 0
    /\ streamActive = TRUE
    /\ blocks = 0
    /\ magnitudes = <<>>
    /\ maxMag = 0
    /\ maxIdx = 0
    /\ freq = 0
    /\ stdout = <<>>
    /\ cbOps = <<>>
    /\ pending \in AllBlocks
    /\ qfreq = 0
    /\ qnote = NoNote

ProcessPending ==
    /\ streamActive
    /\ pending # NoBlock
    /\ processAudio(pending)
    /\ pending' = NoBlock
    /\ UNCHANGED <<pc, calls, defers, sigChan, streamActive, qfreq, qnote>>

NextBlock == ProcessPending

SpecBlock == InitBlock /\ [][NextBlock]_vars

-----------------------------------------------------------------------------
(* One findClosestNote call on each frequency of QueryFreqs. *)

InitClosest ==
    /\ pianoNotes = generatePianoNotes
    /\ pc = "Initialize"
    /\ calls = <<>>
    /\ defers = <<>>
    /\ sigChan = 0
    /\ streamActive = FALSE
    /\ blocks = 0
    /\ magnitudes = <<>>
    /\ maxMag = 0
    /\ maxIdx = 0
    /\ freq = 0
    /\ stdout = <<>>
    /\ cbOps = <<>>
    /\ pending = NoBlock
    /\ qfreq \in QueryFreqs
    /\ qnote = NoNote

FindClosest ==
    /\ qnote = NoNote
    /\ qnote' = findClosestNote(qfreq)
    /\ UNCHANGED <<pianoNotes, pc, calls, defers, sigChan, streamActive, callbackVars,
                   pending, qfreq>>

NextClosest == FindClosest

SpecClosest == InitClosest /\ [][NextClosest]_vars

-----------------------------------------------------------------------------
(* Properties of the note table *)

\* C7: the note table has exactly 61 entries and is strictly increasing by
\* frequency, table[i].frequency < table[i+1].frequency for every i in 0..59,
\* in every state reachable after initialization.
C7_TableMonotonic ==
    /\ Len(pianoNotes) = 61
    /\ \A i \in 0..59 : pianoNotes[i + 1].Frequency < pianoNotes[i + 2].Frequency

\* Blocks have been processed and main has run to its end, and the table is
\* still the 61 increasing entries.
C7_Witness ==
    /\ pc = "exited"
    /\ blocks > 0
    /\ Len(pianoNotes) = 61
    /\ pianoNotes[60].Frequency < pianoNotes[61].Frequency

\* The chromatic cycle and the octave numbers, as the claim lists them.
ChromaticCycle == <<"C", "C#", "D", "D#", "E", "F", "F#", "G", "G#", "A", "A#", "B">>

OctaveDigit(n) ==
    CASE n = 2 -> "2" [] n = 3 -> "3" [] n = 4 -> "4" [] n = 5 -> "5" [] n = 6 -> "6"
      [] n = 7 -> "7"

\* 2^(r/12) for r in 0..11, in units of 2^-30.
SemitoneRatio(r) ==
    CASE r = 0 -> 1073741824
      [] r = 1 -> 1137589835
      [] r = 2 -> 1205234447
      [] r = 3 -> 1276901417
      [] r = 4 -> 1352829926
      [] r = 5 -> 1433273380
      [] r = 6 -> 1518500250
      [] r = 7 -> 1608794974
      [] r = 8 -> 1704458901
      [] r = 9 -> 1805811301
      [] r = 10 -> 1913190429
      [] r = 11 -> 2026954652

\* 440 * 2^((i - 33)/12) in frequency units, for i in 0..60: with
\* i - 33 = 12 q + r and r in 0..11 it is 55 * 2^(q + 3) * 2^(r/12).
EqualTempered(i) ==
    LET r == (i - 33) % 12
        q == ((i - 33) - r) \div 12
    IN  MulShift(55 * 2^(q + 3), SemitoneRatio(r), 11)

\* C8: for every index i in 0..60 the name of table[i] is the (i mod 12)-th
\* entry of the chromatic cycle followed by the octave number 2 + floor(i/12),
\* and its frequency is 440 * 2^((i-33)/12) (to the last unit of the
\* frequency grid); the entry at index 33 is named "A4" and has frequency
\* 440.0 within 1e-6.
C8_NamesAndFrequencies ==
    /\ \A i \in 0..60 :
         /\ pianoNotes[i + 1].Name = ChromaticCycle[(i % 12) + 1] \o OctaveDigit(2 + (i \div 12))
         /\ Abs(pianoNotes[i + 1].Frequency - EqualTempered(i)) <= 1
    /\ pianoNotes[34].Name = "A4"
    /\ Abs(pianoNotes[34].Frequency - 440 * FreqScale) * 1000000 <= FreqScale

\* The table after main has started streaming: A4 at index 33, C2 first, C7 last.
C8_Witness ==
    /\ blocks > 0
    /\ pianoNotes[34].Name = "A4"
    /\ pianoNotes[1].Name = "C2"
    /\ pianoNotes[61].Name = "C7"

-----------------------------------------------------------------------------
(* Properties of findClosestNote *)

\* Position in the generated table of the entry at minimum distance from f,
\* the lowest such position when several are equally near.
NearestIndex(f) ==
    LET t == generatePianoNotes
        dist(k) == Abs(f - t[k].Frequency)
    IN  CHOOSE k \in 1..61 :
            /\ \A j \in 1..61 : dist(k) <= dist(j)
            /\ \A j \in 1..61 : dist(j) = dist(k) => k <= j

Nearest(f) == generatePianoNotes[NearestIndex(f)]

\* C3: findClosestNote(freq) returns a table entry whose frequency is at
\* minimum absolute distance from freq over all 61 entries, the one with the
\* lowest index when several are equally distant: table[k] for freq equal to
\* table[k].frequency, and table[k] for freq exactly halfway between table[k]
\* and table[k+1].
C3_ClosestNote ==
    qnote # NoNote =>
        /\ \E k \in 1..61 :
             /\ qnote = pianoNotes[k]
             /\ \A j \in 1..61 :
                  Abs(qfreq - pianoNotes[k].Frequency) <= Abs(qfreq - pianoNotes[j].Frequency)
             /\ \A j \in 1..61 :
                  Abs(qfreq - pianoNotes[j].Frequency) = Abs(qfreq - pianoNotes[k].Frequency)
                      => k <= j
        /\ \A k \in 1..61 : qfreq = pianoNotes[k].Frequency => qnote = pianoNotes[k]
        /\ \A k \in 1..60 :
             qfreq - pianoNotes[k].Frequency = pianoNotes[k + 1].Frequency - qfreq
                 => qnote = pianoNotes[k]

\* A lookup of a frequency exactly halfway between two neighbours has
\* returned the lower one.
C3_Witness ==
    /\ qnote # NoNote
    /\ \E k \in 1..60 :
         /\ qfreq - pianoNotes[k].Frequency = pianoNotes[k + 1].Frequency - qfreq
         /\ qnote = pianoNotes[k]

-----------------------------------------------------------------------------
(* Properties of one processAudio call *)

\* A call has been made: its spectrum and results are in the state.
Processed == blocks > 0

\* searchLimit = floor(2200 / freqResolution) with freqResolution =
\* sampleRate / frameSize, in exact arithmetic.
SearchLimit == (2200 * framesPerBuffer) \div sampleRate

\* The bins of the spectrum mags the peak search covers.
ScannedBins(mags) ==
    0..((IF SearchLimit < Len(mags) THEN SearchLimit ELSE Len(mags)) - 1)

\* The largest magnitude among the scanned bins of mags.
PeakMagnitude(mags) ==
    LET S == ScannedBins(mags)
    IN  CHOOSE m \in {mags[i + 1] : i \in S} : \A i \in S : mags[i + 1] <= m

\* Frequency units per 1/framesPerBuffer Hz: a bin frequency, index *
\* sampleRate / framesPerBuffer Hz, is index * sampleRate of these.
FrameUnit == FreqScale \div framesPerBuffer

\* C1: a detection is reported if and only if the peak magnitude found in the
\* scanned bins is strictly greater than 0.05; a block whose peak magnitude is
\* exactly 0.05 or lower, an all-zero block included, reports nothing.
C1_ReportIffAboveThreshold ==
    Processed =>
        /\ (stdout # <<>>) <=> (PeakMagnitude(magnitudes) * 100 > 5 * MagScale)
        /\ (PeakMagnitude(magnitudes) * 100 = 5 * MagScale) => stdout = <<>>
        /\ (\A k \in 1..Len(magnitudes) : magnitudes[k] = 0) => stdout = <<>>
        /\ Len(stdout) <= 1

\* A block whose peak magnitude is exactly 0.05 has been processed and
\* nothing was reported.
C1_Witness ==
    /\ Processed
    /\ PeakMagnitude(magnitudes) * 100 = 5 * MagScale
    /\ stdout = <<>>

\* C4: the peak search examines exactly the bins with index in
\* [0, min(searchLimit, len(spectrum))), searchLimit = floor(2200 /
\* freqResolution) = 102, and returns the maximum magnitude among them with
\* the frequency index * freqResolution of a bin that holds it; bins at index
\* >= searchLimit never influence the result, and when every scanned magnitude
\* is zero the result is frequency 0 and magnitude 0.
C4_PeakSearch ==
    Processed =>
        /\ SearchLimit = 102
        /\ Len(magnitudes) = 1024
        /\ maxMag = PeakMagnitude(magnitudes)
        /\ maxIdx \in ScannedBins(magnitudes)
        /\ magnitudes[maxIdx + 1] = maxMag
        /\ freq = maxIdx * sampleRate * FrameUnit
        /\ (\A i \in ScannedBins(magnitudes) : magnitudes[i + 1] = 0) => freq = 0 /\ maxMag = 0

\* A spectrum whose largest magnitude lies at or past searchLimit has been
\* processed, and the peak returned is a smaller, scanned one.
C4_Witness ==
    /\ Processed
    /\ maxMag > 0
    /\ \E k \in (SearchLimit + 1)..Len(magnitudes) : magnitudes[k] > maxMag
    /\ maxIdx < SearchLimit

\* One bin width, sampleRate / framesPerBuffer Hz, in frequency units.
BinWidth == sampleRate * FrameUnit

\* The harmonic rule's condition on a raw frequency f: f > 261.0 and f/2
\* within one bin width of the note nearest to it.
HalvingHolds(f) ==
    /\ f > 261 * FreqScale
    /\ Abs((f \div 2) - Nearest(f \div 2).Frequency) < BinWidth

\* The bin whose frequency is nearest to hz Hz.
BinNearest(hz) == (2 * hz * framesPerBuffer + sampleRate) \div (2 * sampleRate)

\* C2: for a reported block with raw peak frequency f, the reported note is
\* findClosestNote(f/2) if f > 261.0 and f/2 lies within freqResolution of
\* its closest note, and findClosestNote(f) in every other case; the halving
\* is applied at most once, the reported raw frequency is the un-halved f, and
\* a peak at the bin nearest 880 Hz is reported as A4 (440 Hz).
C2_HarmonicCorrection ==
    (Processed /\ stdout # <<>>) =>
        LET f == maxIdx * BinWidth
            line == stdout[1]
            note == [Name |-> line.Name, Frequency |-> line.Frequency]
        IN  /\ line.RawFreq = f
            /\ line.Magnitude = maxMag
            /\ HalvingHolds(f) => note = Nearest(f \div 2)
            /\ ~HalvingHolds(f) => note = Nearest(f)
            /\ maxIdx = BinNearest(880) =>
                   note = [Name |-> "A4", Frequency |-> 440 * FreqScale]

\* A peak at the bin nearest 880 Hz has been reported, as A4 and with the raw
\* frequency of that bin.
C2_Witness ==
    /\ Processed
    /\ stdout # <<>>
    /\ maxIdx = BinNearest(880)
    /\ stdout[1].Name = "A4"
    /\ stdout[1].RawFreq = BinNearest(880) * BinWidth

\* A frequency of a bin, in hundredths of a hertz, rounded to the nearest.
CentiHertz(f) == (((f \div FrameUnit) * 100) + (framesPerBuffer \div 2)) \div framesPerBuffer

\* C10: at the reference configuration every reported block whose peak bin is
\* in 13..74 (279.93 Hz to 1593.46 Hz) satisfies the correction condition, so
\* its reported note is the nearest note to half the raw frequency and not the
\* nearest note to the raw frequency; a peak at bin 20 (430.66 Hz) is reported
\* as A3 (220.00 Hz); bin 75 (1614.99 Hz) is the lowest bin above 261 Hz for
\* which the condition fails.
C10_MidRangeAlwaysHalved ==
    (Processed /\ stdout # <<>>) =>
        LET line == stdout[1]
            note == [Name |-> line.Name, Frequency |-> line.Frequency]
        IN  /\ sampleRate = 44100 /\ framesPerBuffer = 2048
            /\ maxIdx \in 13..74 =>
                   /\ HalvingHolds(freq)
                   /\ note = Nearest(freq \div 2)
                   /\ note # Nearest(freq)
            /\ maxIdx = 13 => CentiHertz(freq) = 27993
            /\ maxIdx = 74 => CentiHertz(freq) = 159346
            /\ maxIdx = 20 =>
                   /\ CentiHertz(freq) = 43066
                   /\ note = [Name |-> "A3", Frequency |-> 220 * FreqScale]
            /\ maxIdx <= 12 => freq <= 261 * FreqScale
            /\ maxIdx = 75 =>
                   /\ CentiHertz(freq) = 161499
                   /\ ~HalvingHolds(freq)
                   /\ note = Nearest(freq)

\* A peak at bin 20 has been reported as A3, and the rule's condition holds there.
C10_Witness ==
    /\ Processed
    /\ stdout # <<>>
    /\ maxIdx = 20
    /\ stdout[1].Name = "A3"
    /\ HalvingHolds(freq)

-----------------------------------------------------------------------------
(* Properties of the stream of blocks *)

\* What processing the spectrum mags alone, from a freshly built table,
\* yields: nothing, or the report of the first scanned bin holding the peak.
AloneOutcome(mags) ==
    LET pk == PeakMagnitude(mags)
        S == ScannedBins(mags)
        idx == CHOOSE i \in S : mags[i + 1] = pk /\ \A j \in S : mags[j + 1] = pk => i <= j
        f == idx * BinWidth
        note == IF HalvingHolds(f) THEN Nearest(f \div 2) ELSE Nearest(f)
    IN  IF pk * 100 > 5 * MagScale
        THEN <<[Name |-> note.Name, Frequency |-> note.Frequency, RawFreq |-> f,
                Magnitude |-> pk]>>
        ELSE <<>>

\* C5: the pipeline is stateless across blocks: for any sequence of blocks the
\* outcome for each block (no detection, or the reported note name, note
\* frequency, raw frequency and magnitude) is the outcome of processing that
\* block alone, and the note table is left unchanged by every call.
C5_StatelessAcrossBlocks ==
    /\ pianoNotes = generatePianoNotes
    /\ Processed => stdout = AloneOutcome(magnitudes)

\* After at least two blocks, a block has been reported, as it would be alone.
C5_Witness ==
    /\ blocks >= 2
    /\ stdout # <<>>
    /\ stdout = AloneOutcome(magnitudes)

\* C9: between the entry of processAudio and its return no blocking operation
\* is performed: no I/O (the report to standard output included) and no memory
\* allocation.
C9_NoBlockingInCallback == Processed => cbOps = <<>>

-----------------------------------------------------------------------------
(* Properties of main *)

Made(op) == {i \in 1..Len(calls) : calls[i].op = op}

Succeeded(op) == \E i \in 1..Len(calls) : calls[i] = Call(op, "ok")

StartupFailed ==
    \E i \in 1..Len(calls) :
        /\ calls[i].op \in {"Initialize", "OpenDefaultStream", "Start"}
        /\ calls[i].result = "error"

\* C6: the stream is stopped only after Initialize, OpenDefaultStream and
\* Start have all succeeded; on every path on which main returns, Close is
\* called exactly once if the stream was opened and never otherwise, Terminate
\* exactly once if Initialize succeeded and never otherwise, and Close comes
\* before Terminate; if Initialize, OpenDefaultStream or Start fails, main
\* returns without waiting for the interrupt signal and without calling Stop.
C6_Lifecycle ==
    /\ \A i \in Made("Stop") :
         \E a, b, c \in 1..Len(calls) :
             /\ a < b /\ b < c /\ c < i
             /\ calls[a] = Call("Initialize", "ok")
             /\ calls[b] = Call("OpenDefaultStream", "ok")
             /\ calls[c] = Call("Start", "ok")
    /\ Cardinality(Made("Close")) <= 1
    /\ Cardinality(Made("Terminate")) <= 1
    /\ Made("Close") # {} => Succeeded("OpenDefaultStream")
    /\ Made("Terminate") # {} => Succeeded("Initialize")
    /\ \A i \in Made("Close"), j \in Made("Terminate") : i < j
    /\ pc = "exited" =>
         /\ Succeeded("OpenDefaultStream") => Cardinality(Made("Close")) = 1
         /\ Succeeded("Initialize") => Cardinality(Made("Terminate")) = 1
    /\ StartupFailed =>
         /\ Made("Receive") = {}
         /\ Made("Stop") = {}
         /\ pc \in {"return", "exited"}

\* main has waited, stopped the stream and returned, with Close and then
\* Terminate called.
C6_Witness ==
    /\ pc = "exited"
    /\ Made("Stop") # {}
    /\ Made("Close") # {}
    /\ Made("Terminate") # {}

====
